---- MODULE Spec2Model ----
(***************************************************************************)
(* A model of crawler.py: the ArXivPaper construction pipeline (validate,  *)
(* filter, count), the top-k neighbour selection and materialisation, and  *)
(* GraphNode expansion.                                                    *)
(*                                                                         *)
(* Python values are modelled as follows.                                  *)
(*   - a dict is a function whose DOMAIN is the dict's key set;            *)
(*   - a list is a sequence;                                               *)
(*   - scalar values (strings, None, True, False, numbers used as ids)     *)
(*     are strings, so that any two of them can be compared;               *)
(*   - an attribute that is either None or an object is <<>> (None) or     *)
(*     <<object>>.                                                         *)
(***************************************************************************)
EXTENDS Integers, Sequences, FiniteSets, TLC

VARIABLES
    source,         \* <<the source the caller is about to pass to ArXivPaper(...)>>,
                    \* <<>> once the call is made
    callerDict,     \* the caller's dict object as it is now (<<>> if the caller holds none)
    rec,            \* the root ArXivPaper: <<>> or <<self.paper>>
    node,           \* the GraphNode wrapping rec: <<>> or <<its fields>>
    citExpanded,    \* get_citation_children was called on node
    refExpanded,    \* get_reference_children was called on node
    lastCall,       \* the last operation called, with its argument
    ret,            \* what the last operation returned or raised
    warned,         \* warnings.warn calls of the last operation, in order
    fetchLog        \* urlopen calls of the last operation, in order

vars == <<source, callerDict, rec, node, citExpanded, refExpanded,
          lastCall, ret, warned, fetchLog>>

----------------------------------------------------------------------------
(* Bounds of the model *)

\* citations and references of a caller's payload hold at most this many entries in total
MaxEntries == 2

\* the largest k / fan-out the caller asks for
MaxK == 2

\* the largest number of essential keys a caller's payload lacks
MaxMissing == 2

----------------------------------------------------------------------------
(* Python values *)

None == "None"
PyTrue == "True"
PyFalse == "False"
\* a value that is truthy but is not the object True
PyOne == "1"
\* an arxivId that is neither None nor a str (a JSON number)
NonStrId == "12345"

\* isinstance(v, str), for the values an arxivId takes
IsStr(v) == v \notin {None, NonStrId}

\* None or an object
NoObject == << >>
Some(x) == <<x>>
IsNone(o) == o = << >>
The(o) == o[1]

\* d[key] = val on a dict: the key is added when absent
DictSet(d, key, val) ==
    [x \in (DOMAIN d) \cup {key} |-> IF x = key THEN val ELSE d[x]]

\* {key: val for key, val in d.items() if key in keys}
DictProject(d, keys) == [x \in (DOMAIN d) \cap keys |-> d[x]]

\* list(filter(pred, list)) for a list of entries and a set of entries kept
RECURSIVE FilterList(_, _)
FilterList(list, kept) ==
    IF list = << >> THEN << >>
    ELSE IF Head(list) \in kept
         THEN <<Head(list)>> \o FilterList(Tail(list), kept)
         ELSE FilterList(Tail(list), kept)

Range(s) == {s[i] : i \in DOMAIN s}

----------------------------------------------------------------------------
(* ArXivPaper: the keys *)

essential_metadata_keys ==
    {"abstract", "arxivId", "authors", "citations", "influentialCitationCount",
     "doi", "fieldsOfStudy", "paperId", "references",
     "title", "topics", "url", "venue", "year"}

info_keys == {"arxivId", "authors", "title", "url", "venue", "year"}

citation_summary_keys == {"abstract", "arxivId", "numCitations", "title"}
reference_summary_keys == {"abstract", "arxivId", "numReferences", "title"}

\* The essential keys in alphabetical order; a process iterates a set of
\* strings in an order its hash seed fixes, here this order or its reverse.
KeySeq ==
    <<"abstract", "arxivId", "authors", "citations", "doi", "fieldsOfStudy",
      "influentialCitationCount", "paperId", "references", "title", "topics",
      "url", "venue", "year">>

HashOrders == {"ascending", "descending"}

RECURSIVE SelectKeys(_, _)
SelectKeys(seq, keys) ==
    IF seq = << >> THEN << >>
    ELSE IF Head(seq) \in keys
         THEN <<Head(seq)>> \o SelectKeys(Tail(seq), keys)
         ELSE SelectKeys(Tail(seq), keys)

Reverse(s) == [i \in 1..Len(s) |-> s[Len(s) + 1 - i]]

\* the elements of a set of keys in the order the process iterates them
IterationOrder(keys, order) ==
    IF order = "ascending" THEN SelectKeys(KeySeq, keys)
    ELSE Reverse(SelectKeys(KeySeq, keys))

\* Join as it would be if only the first missing key were reported
JoinFirstOnly(keys, order) == <<IterationOrder(keys, order)[1]>>

\* ", ".join(keys): the text is modelled by the sequence of its parts
Join(keys, order) == IterationOrder(keys, order)

----------------------------------------------------------------------------
(* Payloads: what a caller passes and what the provider returns *)

\* a citation / reference entry as the provider lists it
Entry(id, influential) ==
    [arxivId |-> id, isInfluential |-> influential, authors |-> "authors",
     title |-> "title", url |-> "url", venue |-> "venue", year |-> "year",
     paperId |-> "paperId"]

Without(d, key) == [x \in (DOMAIN d) \ {key} |-> d[x]]

\* a payload that carries every essential key
Payload(id, cits, refs) ==
    [abstract |-> "abstract", arxivId |-> id, authors |-> "authors",
     citations |-> cits, influentialCitationCount |-> "icc", doi |-> "doi",
     fieldsOfStudy |-> "fields", paperId |-> "paperId", references |-> refs,
     title |-> "title", topics |-> "topics", url |-> "url", venue |-> "venue",
     year |-> "year"]

WithoutKeys(d, keys) == [x \in (DOMAIN d) \ keys |-> d[x]]

\* a payload that also carries counts of its own, which are not the lengths
WithUpstreamCounts(d) == [x \in (DOMAIN d) \cup {"numCitations", "numReferences"} |->
                            IF x \in {"numCitations", "numReferences"} THEN 9 ELSE d[x]]

\* urlopen(API_ID + paper_id) followed by json.loads: <<>> when the request
\* fails, else <<the payload>>.  The provider knows four papers.
Provider(id) ==
    CASE id = "a1" -> Some(Payload("a1",
                            <<Entry("a2", PyTrue), Entry("a1", PyFalse)>>,
                            <<Entry(None, PyTrue)>>))
      [] id = "a2" -> Some(WithUpstreamCounts(Payload("a2",
                            << >>,
                            <<Entry("a1", PyTrue), Entry("a2", PyTrue)>>)))
      [] id = "x2" -> Some(WithoutKeys(Payload("x2", << >>, << >>),
                                       {"references", "venue"}))
      [] OTHER -> NoObject

\* the sources a caller constructs an ArXivPaper from
StrSource(id) == [kind |-> "str", id |-> id]
DictSource(d) == [kind |-> "dict", dict |-> d]
OtherSource == [kind |-> "other"]

\* the source that a value read from an entry's arxivId is
SourceOfValue(v) == IF IsStr(v) THEN StrSource(v) ELSE OtherSource

----------------------------------------------------------------------------
(* ArXivPaper.__init__ *)

\* the outcome of one step on the dict self.paper
Done(p) == [raised |-> FALSE, paper |-> p, err |-> "", msg |-> << >>]
Raise(p, err, msg) == [raised |-> TRUE, paper |-> p, err |-> err, msg |-> msg]

check_relevant_keys(p, order) ==
    LET missing_keys == essential_metadata_keys \ (DOMAIN p)
    IN IF missing_keys # {}
       THEN Raise(p, "KeyError",
                  <<"The following essential keys are missing from the paper: ">>
                      \o Join(missing_keys, order))
       ELSE Done(p)

\* IsInfluential as it would be with a truth test in place of "is True"
IsInfluentialTruthy(e) == e["isInfluential"] \in {PyTrue, PyOne}

\* i['isInfluential'] is True
IsInfluential(e) == e["isInfluential"] = PyTrue

\* i['arxivId'] is not None
HasArxivId(e) == e["arxivId"] # None

discard_non_influential(p, axis) ==
    IF \E e \in Range(p[axis]) : "isInfluential" \notin DOMAIN e
    THEN Raise(p, "KeyError", <<"isInfluential">>)
    ELSE Done(DictSet(p, axis,
              FilterList(p[axis], {e \in Range(p[axis]) : IsInfluential(e)})))

discard_none_arxiv(p, axis) ==
    IF \E e \in Range(p[axis]) : "arxivId" \notin DOMAIN e
    THEN Raise(p, "KeyError", <<"arxivId">>)
    ELSE Done(DictSet(p, axis,
              FilterList(p[axis], {e \in Range(p[axis]) : HasArxivId(e)})))

set_num_references(p) == Done(DictSet(p, "numReferences", Len(p["references"])))

\* set_num_citations as it would be if a count the payload carries were kept
set_num_citations_keeping(p) ==
    IF "numCitations" \in DOMAIN p THEN Done(p)
    ELSE Done(DictSet(p, "numCitations", Len(p["citations"])))

set_num_citations(p) == Done(DictSet(p, "numCitations", Len(p["citations"])))

ApplyStep(step, p, order) ==
    CASE step = "check_relevant_keys" -> check_relevant_keys(p, order)
      [] step = "discard_non_influential_citations" ->
             discard_non_influential(p, "citations")
      [] step = "discard_non_influential_references" ->
             discard_non_influential(p, "references")
      [] step = "discard_none_arxiv_references" ->
             discard_none_arxiv(p, "references")
      [] step = "discard_none_arxiv_citations" ->
             discard_none_arxiv(p, "citations")
      [] step = "set_num_references" -> set_num_references(p)
      [] step = "set_num_citations" -> set_num_citations(p)

\* the calls __init__ makes after check_paper, in order
InitSteps ==
    <<"check_relevant_keys",
      "discard_non_influential_citations",
      "discard_non_influential_references",
      "discard_none_arxiv_references",
      "discard_none_arxiv_citations",
      "set_num_references",
      "set_num_citations">>

\* the steps run one after another on the same dict; an exception ends them
\* and leaves the dict as the steps before it made it
RECURSIVE RunSteps(_, _, _)
RunSteps(steps, p, order) ==
    IF steps = << >> THEN Done(p)
    ELSE LET r == ApplyStep(Head(steps), p, order)
         IN IF r.raised THEN r ELSE RunSteps(Tail(steps), r.paper, order)

FetchWarning ==
    [text |-> "Paper not present in memory. Extracting Paper MetaData from Semantic Scholar!",
     args |-> << >>]

\* check_paper: the dict self.paper is bound to (<<>> when it raises), with the
\* warnings and the requests it makes
check_paper(src) ==
    CASE src.kind = "str" ->
             [paper |-> Provider(src.id), warned |-> <<FetchWarning>>,
              fetched |-> <<src.id>>,
              err |-> IF IsNone(Provider(src.id)) THEN "URLError" ELSE "",
              msg |-> << >>]
      [] src.kind = "dict" ->
             [paper |-> Some(src.dict), warned |-> << >>, fetched |-> << >>,
              err |-> "", msg |-> << >>]
      [] OTHER ->
             [paper |-> NoObject, warned |-> << >>, fetched |-> << >>,
              err |-> "TypeError", msg |-> <<"Paper must be a Dict or an Arxiv Id">>]

\* ArXivPaper(src): status "ok" with the paper, or "error" with the exception;
\* paper is the dict self.paper is bound to when __init__ ends, as it then is
ArXivPaper(src, order) ==
    LET c == check_paper(src)
    IN IF IsNone(c.paper)
       THEN [status |-> "error", err |-> c.err, msg |-> c.msg, paper |-> NoObject,
             warned |-> c.warned, fetched |-> c.fetched]
       ELSE LET r == RunSteps(InitSteps, The(c.paper), order)
            IN [status |-> IF r.raised THEN "error" ELSE "ok",
                err |-> r.err, msg |-> r.msg, paper |-> Some(r.paper),
                warned |-> c.warned, fetched |-> c.fetched]

----------------------------------------------------------------------------
(* ArXivPaper: top-k selection and materialisation *)

Warning(text, args) == [text |-> text, args |-> args]

\* what a call returns (status "ok", val) or raises (status "error", err, msg),
\* with the warnings and requests it made
Returned(val, w, f) ==
    [status |-> "ok", err |-> "", msg |-> << >>, val |-> val,
     warned |-> w, fetched |-> f]
Raised(err, msg, w, f) ==
    [status |-> "error", err |-> err, msg |-> msg, val |-> << >>,
     warned |-> w, fetched |-> f]

\* i = 0; while i < k: append the projection of all[i]; i += 1
RECURSIVE TopKLoop(_, _, _, _)
TopKLoop(all, k, i, acc) ==
    IF i < k
    THEN TopKLoop(all, k, i + 1, Append(acc, DictProject(all[i + 1], info_keys)))
    ELSE acc

\* TopKInformation as it would be without the clamp of k
TopKInformationUnclamped(p, countKey, listKey, text, k) ==
    IF k > Len(p[listKey])
    THEN Raised("IndexError", <<"list index out of range">>, << >>, << >>)
    ELSE Returned(TopKLoop(p[listKey], k, 0, << >>), << >>, << >>)

\* the body the two get_top_k_*_information methods share, on the paper's
\* count key and list key
TopKInformation(p, countKey, listKey, text, k) ==
    LET clamp == k > p[countKey]
        kk == IF clamp THEN p[countKey] ELSE k
        w == IF clamp THEN <<Warning(text, <<p[countKey]>>)>> ELSE << >>
    IN IF kk > Len(p[listKey])
       THEN Raised("IndexError", <<"list index out of range">>, w, << >>)
       ELSE Returned(TopKLoop(p[listKey], kk, 0, << >>), w, << >>)

get_top_k_citations_information(p, k) ==
    TopKInformation(p, "numCitations", "citations",
                    "Total citations are {}. Retrieving all citations", k)

get_top_k_references_information(p, k) ==
    TopKInformation(p, "numReferences", "references",
                    "Total references are {}. Retrieving all references", k)

\* ConstructEach as it would be if a neighbour that fails were skipped
RECURSIVE ConstructEachSkipping(_, _, _, _, _, _)
ConstructEachSkipping(list, i, papers, w, f, order) ==
    IF i > Len(list) THEN Returned(papers, w, f)
    ELSE LET c == ArXivPaper(SourceOfValue(list[i]["arxivId"]), order)
         IN ConstructEachSkipping(list, i + 1,
                IF c.status = "error" THEN papers ELSE Append(papers, The(c.paper)),
                w \o c.warned, f \o c.fetched, order)

\* for i in range(len(list)): papers.append(ArXivPaper(list[i]['arxivId']))
RECURSIVE ConstructEach(_, _, _, _, _, _)
ConstructEach(list, i, papers, w, f, order) ==
    IF i > Len(list) THEN Returned(papers, w, f)
    ELSE LET c == ArXivPaper(SourceOfValue(list[i]["arxivId"]), order)
         IN IF c.status = "error"
            THEN Raised(c.err, c.msg, w \o c.warned, f \o c.fetched)
            ELSE ConstructEach(list, i + 1, Append(papers, The(c.paper)),
                               w \o c.warned, f \o c.fetched, order)

\* the ArXivPaper objects are modelled by their self.paper dicts
get_top_k_references_metadata(p, k, order) ==
    LET references == get_top_k_references_information(p, k)
    IN IF references.status = "error" THEN references
       ELSE ConstructEach(references.val, 1, << >>, references.warned, << >>, order)

\* get_top_k_citations_metadata as it would be if wired to the references
get_top_k_citations_metadata_of_references(p, k, order) ==
    LET citations == get_top_k_references_information(p, k)
    IN IF citations.status = "error" THEN citations
       ELSE ConstructEach(citations.val, 1, << >>, citations.warned, << >>, order)

get_top_k_citations_metadata(p, k, order) ==
    LET citations == get_top_k_citations_information(p, k)
    IN IF citations.status = "error" THEN citations
       ELSE ConstructEach(citations.val, 1, << >>, citations.warned, << >>, order)

----------------------------------------------------------------------------
(* GraphNode *)

\* GraphNode(paper, num_citations, num_references); self.paper is the root record
GraphNode(num_citations, num_references) ==
    [num_citations |-> num_citations, num_references |-> num_references,
     citation_children |-> NoObject, reference_children |-> NoObject]

is_reference_leaf(p) == p["numReferences"] = 0

\* is_citation_leaf as it would be if it read the other count
is_citation_leaf_of_references(p) == p["numReferences"] = 0

is_citation_leaf(p) == p["numCitations"] = 0

\* child.paper projected to the summary keys, for each child
ProjectEach(papers, keys) == [i \in 1..Len(papers) |-> DictProject(papers[i], keys)]

get_citation_children_metadata(n, p, order) ==
    LET m == get_top_k_citations_metadata(p, n.num_citations, order)
    IN IF m.status = "error" THEN m
       ELSE Returned(ProjectEach(m.val, citation_summary_keys), m.warned, m.fetched)

get_reference_children_metadata(n, p, order) ==
    LET m == get_top_k_references_metadata(p, n.num_references, order)
    IN IF m.status = "error" THEN m
       ELSE Returned(ProjectEach(m.val, reference_summary_keys), m.warned, m.fetched)

----------------------------------------------------------------------------
(* The sources a caller starts from *)

\* the entries a caller's payload lists
EntryPool ==
    {Entry("a1", PyTrue), Entry("a2", PyTrue),
     Entry("x1", PyTrue), Entry("x2", PyTrue), Entry(NonStrId, PyTrue),
     Entry("a1", PyFalse), Entry("a2", PyOne), Entry(None, PyTrue),
     Without(Entry("a2", PyTrue), "venue"),
     Without(Entry("a1", PyTrue), "isInfluential"),
     Without(Entry("a1", PyTrue), "arxivId"),
     Without(Entry("a1", PyFalse), "arxivId")}

\* <<citations, references>> of at most n entries in total
Collections(n) ==
    UNION {[1..m[1] -> EntryPool] \X [1..m[2] -> EntryPool] :
              m \in {x \in (0..n) \X (0..n) : x[1] + x[2] <= n}}

KeySetsUpTo(n) == {m \in SUBSET essential_metadata_keys : Cardinality(m) <= n}

\* payloads with every essential key, with and without counts of their own
CompletePayloads ==
    LET plain == {Payload("root", cr[1], cr[2]) : cr \in Collections(MaxEntries)}
    IN plain \cup {WithUpstreamCounts(d) : d \in plain}

\* <<citations, references>> of the payloads that lack essential keys: none,
\* entries every filter would drop, and an entry a filter would raise on
SampleCollections ==
    {<< << >>, << >> >>,
     << <<Entry("a1", PyFalse), Entry(None, PyTrue)>>, <<Entry("a2", PyOne)>> >>,
     << <<Without(Entry("a1", PyTrue), "isInfluential")>>, <<Entry("a1", PyTrue)>> >>}

\* payloads that lack essential keys
IncompletePayloads ==
    {WithoutKeys(Payload("root", cr[1], cr[2]), m) :
        cr \in SampleCollections, m \in KeySetsUpTo(MaxMissing) \ {{}}}

Sources ==
    {DictSource(d) : d \in CompletePayloads \cup IncompletePayloads}
        \cup {StrSource(id) : id \in {"a1", "a2", "x1", "x2"}}
        \cup {OtherSource}

----------------------------------------------------------------------------
(* The state machine *)

Call(op, k) == [op |-> op, k |-> k]

Outcome(r) == [status |-> r.status, err |-> r.err, msg |-> r.msg, val |-> r.val]

Init ==
    /\ source \in {Some(x) : x \in Sources}
    /\ callerDict = IF The(source).kind = "dict" THEN Some(The(source).dict) ELSE NoObject
    /\ rec = NoObject
    /\ node = NoObject
    /\ citExpanded = FALSE
    /\ refExpanded = FALSE
    /\ lastCall = Call("none", 0)
    /\ ret = [status |-> "none", err |-> "", msg |-> << >>, val |-> << >>]
    /\ warned = << >>
    /\ fetchLog = << >>

\* rec = ArXivPaper(source).  A dict the caller passes is the dict self.paper is
\* bound to, so what __init__ does to self.paper it does to the caller's dict.
\* The order in which a set of strings is iterated is any of HashOrders.
Construct ==
    /\ ~IsNone(source)
    /\ \E order \in HashOrders :
          LET c == ArXivPaper(The(source), order)
          IN /\ rec' = IF c.status = "ok" THEN c.paper ELSE NoObject
             /\ callerDict' = IF The(source).kind = "dict" THEN c.paper ELSE callerDict
             /\ ret' = [status |-> c.status, err |-> c.err, msg |-> c.msg, val |-> << >>]
             /\ warned' = c.warned
             /\ fetchLog' = c.fetched
    /\ source' = NoObject
    /\ lastCall' = Call("ArXivPaper", 0)
    /\ UNCHANGED <<node, citExpanded, refExpanded>>

\* A method of rec that returns r and leaves self.paper as it is.  These
\* methods read self.paper alone and assign nothing, so the caller's calls of
\* them are modelled before the record is wrapped in a GraphNode.
RecordCall(op, k, r) ==
    /\ lastCall' = Call(op, k)
    /\ ret' = Outcome(r)
    /\ warned' = r.warned
    /\ fetchLog' = r.fetched
    /\ UNCHANGED <<source, callerDict, rec, node, citExpanded, refExpanded>>

TopKCitations ==
    /\ ~IsNone(rec)
    /\ IsNone(node)
    /\ \E k \in 0..MaxK :
          RecordCall("get_top_k_citations_information", k,
                     get_top_k_citations_information(The(rec), k))

TopKReferences ==
    /\ ~IsNone(rec)
    /\ IsNone(node)
    /\ \E k \in 0..MaxK :
          RecordCall("get_top_k_references_information", k,
                     get_top_k_references_information(The(rec), k))

TopKCitationsMetadata ==
    /\ ~IsNone(rec)
    /\ IsNone(node)
    /\ \E k \in 0..MaxK, order \in HashOrders :
          RecordCall("get_top_k_citations_metadata", k,
                     get_top_k_citations_metadata(The(rec), k, order))

TopKReferencesMetadata ==
    /\ ~IsNone(rec)
    /\ IsNone(node)
    /\ \E k \in 0..MaxK, order \in HashOrders :
          RecordCall("get_top_k_references_metadata", k,
                     get_top_k_references_metadata(The(rec), k, order))

NewGraphNode ==
    /\ ~IsNone(rec)
    /\ IsNone(node)
    /\ \E nc \in 0..MaxK, nr \in 0..MaxK :
          /\ node' = Some(GraphNode(nc, nr))
          /\ lastCall' = Call("GraphNode", 0)
    /\ ret' = [status |-> "ok", err |-> "", msg |-> << >>, val |-> << >>]
    /\ warned' = << >>
    /\ fetchLog' = << >>
    /\ UNCHANGED <<source, callerDict, rec, citExpanded, refExpanded>>

\* GetCitationChildren as it would be if each call extended the children
GetCitationChildrenExtending ==
    /\ ~IsNone(node)
    /\ LET n == The(node)
           r == get_top_k_citations_information(The(rec), n.num_citations)
           old == IF IsNone(n.citation_children) THEN << >> ELSE The(n.citation_children)
       IN IF is_citation_leaf(The(rec))
          THEN /\ node' = node
               /\ ret' = [status |-> "ok", err |-> "", msg |-> << >>, val |-> << >>]
               /\ warned' = << >>
          ELSE /\ node' = IF r.status = "ok"
                          THEN Some([n EXCEPT !.citation_children = Some(old \o r.val)])
                          ELSE node
               /\ ret' = [Outcome(r) EXCEPT !.val = << >>]
               /\ warned' = r.warned
    /\ citExpanded' = TRUE
    /\ lastCall' = Call("get_citation_children", 0)
    /\ fetchLog' = << >>
    /\ UNCHANGED <<source, callerDict, rec, refExpanded>>

\* if not self.is_citation_leaf(): self.citation_children = top k citations
GetCitationChildren ==
    /\ ~IsNone(node)
    /\ LET n == The(node)
           r == get_top_k_citations_information(The(rec), n.num_citations)
       IN IF is_citation_leaf(The(rec))
          THEN /\ node' = node
               /\ ret' = [status |-> "ok", err |-> "", msg |-> << >>, val |-> << >>]
               /\ warned' = << >>
          ELSE /\ node' = IF r.status = "ok"
                          THEN Some([n EXCEPT !.citation_children = Some(r.val)])
                          ELSE node
               /\ ret' = [Outcome(r) EXCEPT !.val = << >>]
               /\ warned' = r.warned
    /\ citExpanded' = TRUE
    /\ lastCall' = Call("get_citation_children", 0)
    /\ fetchLog' = << >>
    /\ UNCHANGED <<source, callerDict, rec, refExpanded>>

GetReferenceChildren ==
    /\ ~IsNone(node)
    /\ LET n == The(node)
           r == get_top_k_references_information(The(rec), n.num_references)
       IN IF is_reference_leaf(The(rec))
          THEN /\ node' = node
               /\ ret' = [status |-> "ok", err |-> "", msg |-> << >>, val |-> << >>]
               /\ warned' = << >>
          ELSE /\ node' = IF r.status = "ok"
                          THEN Some([n EXCEPT !.reference_children = Some(r.val)])
                          ELSE node
               /\ ret' = [Outcome(r) EXCEPT !.val = << >>]
               /\ warned' = r.warned
    /\ refExpanded' = TRUE
    /\ lastCall' = Call("get_reference_children", 0)
    /\ fetchLog' = << >>
    /\ UNCHANGED <<source, callerDict, rec, citExpanded>>

\* a method of node that returns r and leaves the node's fields as they are
NodeCall(op, r) ==
    /\ lastCall' = Call(op, 0)
    /\ ret' = Outcome(r)
    /\ warned' = r.warned
    /\ fetchLog' = r.fetched
    /\ UNCHANGED <<source, callerDict, rec, node, citExpanded, refExpanded>>

GetCitationChildrenMetadata ==
    /\ ~IsNone(node)
    /\ \E order \in HashOrders :
          NodeCall("get_citation_children_metadata",
                   get_citation_children_metadata(The(node), The(rec), order))

GetReferenceChildrenMetadata ==
    /\ ~IsNone(node)
    /\ \E order \in HashOrders :
          NodeCall("get_reference_children_metadata",
                   get_reference_children_metadata(The(node), The(rec), order))

Next ==
    \/ Construct
    \/ TopKCitations
    \/ TopKReferences
    \/ TopKCitationsMetadata
    \/ TopKReferencesMetadata
    \/ NewGraphNode
    \/ GetCitationChildren
    \/ GetReferenceChildren
    \/ GetCitationChildrenMetadata
    \/ GetReferenceChildrenMetadata

Spec == Init /\ [][Next]_vars

----------------------------------------------------------------------------
(* Vocabulary of the properties *)

Min(a, b) == IF a <= b THEN a ELSE b

IsPrefix(s, t) == Len(s) <= Len(t) /\ \A i \in 1..Len(s) : s[i] = t[i]

\* the first n entries of a list, each projected to the summary fields
Summaries(list, n) == [i \in 1..n |-> DictProject(list[i], info_keys)]

\* the arxivIds of the first n entries of a list
ArxivIds(list, n) == [i \in 1..n |-> list[i]["arxivId"]]

\* the requests that constructing a record for each of ids, in order, makes
RequestsFor(ids) == SelectSeq(ids, IsStr)

CountsAreLengths(p) ==
    /\ {"numCitations", "numReferences"} \subseteq DOMAIN p
    /\ p["numCitations"] = Len(p["citations"])
    /\ p["numReferences"] = Len(p["references"])

MaterialisationOps ==
    {"get_top_k_citations_metadata", "get_top_k_references_metadata"}

\* why constructing a record from the arxivId id fails, "" if it does not
ChildError(id) ==
    CASE ~IsStr(id) -> "TypeError"
      [] IsStr(id) /\ IsNone(Provider(id)) -> "URLError"
      [] IsStr(id) /\ ~IsNone(Provider(id))
            /\ ~(essential_metadata_keys \subseteq DOMAIN The(Provider(id))) -> "KeyError"
      [] OTHER -> ""

----------------------------------------------------------------------------
(* C1 *)

\* C1: once ArXivPaper.__init__ has completed, numCitations is the length of
\* the retained citations and numReferences the length of the retained
\* references, whatever counts the payload carried, in every later state; the
\* same holds of every record a materialisation call returns.
C1_CountConsistency ==
    /\ ~IsNone(rec) => CountsAreLengths(The(rec))
    /\ (lastCall.op \in MaterialisationOps /\ ret.status = "ok") =>
           \A i \in 1..Len(ret.val) : CountsAreLengths(ret.val[i])

\* the record fetched for "a2", whose payload carries counts of 9, after its
\* node's reference children were materialised
C1_Witness ==
    /\ ~IsNone(rec)
    /\ The(rec)["arxivId"] = "a2"
    /\ The(rec)["numReferences"] = 2
    /\ The(rec)["numCitations"] = 0
    /\ lastCall.op = "get_reference_children_metadata"
    /\ ret.status = "ok"

----------------------------------------------------------------------------
(* C2 *)

RetainedEntryOk(e) ==
    /\ {"isInfluential", "arxivId"} \subseteq DOMAIN e
    /\ e["isInfluential"] = PyTrue
    /\ e["arxivId"] # None

\* C2: every entry that remains in citations and in references of a
\* constructed record has isInfluential equal to True and an arxivId that
\* is not None.
C2_RetainedEntries ==
    ~IsNone(rec) =>
        \A e \in Range(The(rec)["citations"]) \cup Range(The(rec)["references"]) :
            RetainedEntryOk(e)

\* the record fetched for "a1": the payload lists a non-influential citation
\* and a reference without arxivId, and neither remains
C2_Witness ==
    /\ ~IsNone(rec)
    /\ The(rec)["arxivId"] = "a1"
    /\ The(rec)["citations"] = <<Entry("a2", PyTrue)>>
    /\ The(rec)["references"] = << >>

----------------------------------------------------------------------------
(* C3 *)

PendingDictLacksKeys ==
    /\ ~IsNone(source)
    /\ The(source).kind = "dict"
    /\ ~(essential_metadata_keys \subseteq DOMAIN The(source).dict)

\* C3: constructing from a payload that lacks essential keys raises one
\* KeyError whose message lists every missing key once, produces no record,
\* and leaves the payload as it was: no filter and no count is applied.
C3_MissingKeysRejected ==
    [][PendingDictLacksKeys =>
          LET missing == essential_metadata_keys \ DOMAIN The(source).dict
          IN /\ ret'.status = "error"
             /\ ret'.err = "KeyError"
             /\ Range(Tail(ret'.msg)) = missing
             /\ Len(Tail(ret'.msg)) = Cardinality(missing)
             /\ IsNone(rec')
             /\ callerDict' = callerDict]_vars

\* a payload without references and venue was rejected, its citations unfiltered
C3_Witness ==
    /\ lastCall.op = "ArXivPaper"
    /\ ret.status = "error"
    /\ ret.err = "KeyError"
    /\ Range(Tail(ret.msg)) = {"references", "venue"}
    /\ IsNone(rec)
    /\ ~IsNone(callerDict)
    /\ The(callerDict)["citations"] = <<Entry("a1", PyFalse), Entry(None, PyTrue)>>
    /\ "numCitations" \notin DOMAIN The(callerDict)

----------------------------------------------------------------------------
(* C4 *)

TopKAsClaimed(listKey, countKey) ==
    LET p == The(rec)
        n == p[countKey]
        m == Min(lastCall.k, n)
    IN /\ ret.status = "ok"
       /\ ret.val = Summaries(p[listKey], m)
       /\ Len(ret.val) = m
       /\ (warned # << >>) <=> (lastCall.k > n)
       /\ Len(warned) <= 1

\* C4: get_top_k_citations_information(k) returns the first min(k,
\* numCitations) retained citations in order, warns exactly when
\* k > numCitations and never raises; the same for references.
C4_TopKClamp ==
    /\ lastCall.op = "get_top_k_citations_information" =>
           TopKAsClaimed("citations", "numCitations")
    /\ lastCall.op = "get_top_k_references_information" =>
           TopKAsClaimed("references", "numReferences")

\* k = 2 asked of a record with one citation: one entry and the warning
C4_Witness ==
    /\ lastCall = Call("get_top_k_citations_information", 2)
    /\ The(rec)["numCitations"] = 1
    /\ Len(ret.val) = 1
    /\ Len(warned) = 1

----------------------------------------------------------------------------
(* C5 *)

TopKOps == {"get_top_k_citations_information", "get_top_k_references_information"}

\* C5: every entry that get_top_k_citations_information /
\* get_top_k_references_information returns has exactly the keys arxivId,
\* authors, title, url, venue, year.
C5_ProjectionExact ==
    (lastCall.op \in TopKOps /\ ret.status = "ok") =>
        \A i \in 1..Len(ret.val) : DOMAIN ret.val[i] = info_keys

----------------------------------------------------------------------------
(* C6 *)

MaterialisedAsClaimed(listKey, countKey, k) ==
    LET p == The(rec)
        ids == ArxivIds(p[listKey], Min(k, p[countKey]))
    IN /\ IsPrefix(fetchLog, RequestsFor(ids))
       /\ ret.status = "ok" =>
             /\ fetchLog = ids
             /\ Len(ret.val) = Len(ids)
             /\ \A i \in 1..Len(ids) : ret.val[i]["arxivId"] = ids[i]

\* C6: get_top_k_citations_metadata(k) requests the arxivIds of the first
\* min(k, numCitations) retained citations, in that order and no others, and
\* returns the records in that order; get_top_k_references_metadata(k) does
\* so with the references.
C6_AxisWiring ==
    /\ lastCall.op = "get_top_k_citations_metadata" =>
           MaterialisedAsClaimed("citations", "numCitations", lastCall.k)
    /\ lastCall.op = "get_top_k_references_metadata" =>
           MaterialisedAsClaimed("references", "numReferences", lastCall.k)

\* a record citing a2 and referring to a1: the citation records are a2's
C6_Witness ==
    /\ lastCall = Call("get_top_k_citations_metadata", 1)
    /\ ArxivIds(The(rec)["citations"], The(rec)["numCitations"]) = <<"a2">>
    /\ ArxivIds(The(rec)["references"], The(rec)["numReferences"]) = <<"a1">>
    /\ fetchLog = <<"a2">>
    /\ ret.status = "ok"
    /\ ret.val[1]["arxivId"] = "a2"

----------------------------------------------------------------------------
(* C7 *)

ChildrenAsClaimed(children, expanded, listKey, countKey, fanout) ==
    LET p == The(rec)
    IN children = IF ~expanded \/ p[countKey] = 0
                  THEN NoObject
                  ELSE Some(Summaries(p[listKey], Min(fanout, p[countKey])))

\* C7: citation_children is None if get_citation_children was never called
\* or numCitations is 0, and else the summaries of the first min(num_citations,
\* numCitations) citations; reference_children likewise.
C7_Children ==
    ~IsNone(node) =>
        /\ ChildrenAsClaimed(The(node).citation_children, citExpanded,
                             "citations", "numCitations", The(node).num_citations)
        /\ ChildrenAsClaimed(The(node).reference_children, refExpanded,
                             "references", "numReferences", The(node).num_references)

\* both axes expanded on a record with no citation and a reference
C7_Witness ==
    /\ ~IsNone(node)
    /\ citExpanded
    /\ refExpanded
    /\ The(rec)["numCitations"] = 0
    /\ The(rec)["numReferences"] > 0
    /\ IsNone(The(node).citation_children)
    /\ ~IsNone(The(node).reference_children)

----------------------------------------------------------------------------
(* C8 *)

ExpansionFrame(childrenKept, expanded) ==
    /\ ~IsNone(node)
    /\ rec' = rec
    /\ callerDict' = callerDict
    /\ fetchLog' = << >>
    /\ The(node').num_citations = The(node).num_citations
    /\ The(node').num_references = The(node).num_references
    /\ childrenKept
    /\ expanded => node' = node

\* C8: get_citation_children changes nothing but citation_children, makes no
\* request, and changes nothing at all once it was called; likewise
\* get_reference_children and reference_children.
C8_ExpansionIdempotent ==
    [][/\ lastCall'.op = "get_citation_children" =>
              ExpansionFrame(The(node').reference_children = The(node).reference_children
                                 /\ refExpanded' = refExpanded,
                             citExpanded)
       /\ lastCall'.op = "get_reference_children" =>
              ExpansionFrame(The(node').citation_children = The(node).citation_children
                                 /\ citExpanded' = citExpanded,
                             refExpanded)]_vars

\* get_citation_children was called on a node whose reference children are set
C8_Witness ==
    /\ lastCall.op = "get_citation_children"
    /\ ~IsNone(node)
    /\ ~IsNone(The(node).citation_children)
    /\ ~IsNone(The(node).reference_children)
    /\ Len(The(The(node).citation_children)) = 1

----------------------------------------------------------------------------
(* C9 *)

FailsAsClaimed(listKey, countKey, k) ==
    LET p == The(rec)
        ids == ArxivIds(p[listKey], Min(k, p[countKey]))
        failing == {i \in 1..Len(ids) : ChildError(ids[i]) # ""}
    IN failing # {} =>
          LET j == CHOOSE i \in failing : \A x \in failing : i <= x
          IN /\ ret.status = "error"
             /\ ret.err = ChildError(ids[j])
             /\ ret.val = << >>
             /\ fetchLog = RequestsFor(SubSeq(ids, 1, j))
             /\ ret.err = "KeyError" =>
                    Range(Tail(ret.msg)) =
                        essential_metadata_keys \ DOMAIN The(Provider(ids[j]))

\* C9: when constructing the j-th selected neighbour fails, the
\* materialisation call raises that error, returns no list, requests each
\* arxivId up to the j-th once and none after it.
C9_FailurePropagates ==
    /\ lastCall.op = "get_top_k_citations_metadata" =>
           FailsAsClaimed("citations", "numCitations", lastCall.k)
    /\ lastCall.op = "get_top_k_references_metadata" =>
           FailsAsClaimed("references", "numReferences", lastCall.k)
    /\ lastCall.op = "get_citation_children_metadata" =>
           FailsAsClaimed("citations", "numCitations", The(node).num_citations)
    /\ lastCall.op = "get_reference_children_metadata" =>
           FailsAsClaimed("references", "numReferences", The(node).num_references)

\* the first of two references cannot be fetched: one request, an error
C9_Witness ==
    /\ lastCall = Call("get_top_k_references_metadata", 2)
    /\ ArxivIds(The(rec)["references"], The(rec)["numReferences"]) = <<"x1", "a1">>
    /\ ret.status = "error"
    /\ ret.err = "URLError"
    /\ fetchLog = <<"x1">>

----------------------------------------------------------------------------
(* C10 *)

\* C10: constructing a record from a dict leaves the caller's dict as it
\* was: its citations and references unfiltered, no numCitations and
\* numReferences added.
C10_PayloadUntouched ==
    [][(~IsNone(source) /\ The(source).kind = "dict") =>
           callerDict' = callerDict]_vars

====
